---- MODULE Spec2Model ----
(***************************************************************************)
(* Model of the fly5d server: the Flask entry points of app.py and the     *)
(* TPUHandler of tpu_handler.py (capability probe, accelerator path and    *)
(* CPU fallback of the batched SDF evaluation).                            *)
(*                                                                         *)
(* Numbers.  Every finite number is an integer count of 1/20ths, so that   *)
(* 1.0 is One = 20, 0.6 is 12 and p*0.5 is exact for every period p that   *)
(* is a multiple of 0.1.  A float64 is [kind, v] with kind "fin", "nan" or *)
(* "inf" (v = 0 when not finite).  A JSON number also carries the kind of  *)
(* its literal ("int" for 1, "float" for 1.0), which decides the dtype     *)
(* numpy gives an array built from it.                                     *)
(***************************************************************************)
EXTENDS Integers, Sequences, FiniteSets, TLC

VARIABLES config, config_file, phase, tpu_available, tpu_handler,
          interpreter, req, call

vars == <<config, config_file, phase, tpu_available, tpu_handler,
          interpreter, req, call>>

serverVars == <<config, config_file, phase, tpu_available, tpu_handler,
                interpreter, req>>

\* Longest batch of positions of one request.
MaxBatch == 2

\* Number of requests the threaded server runs at the same time.
NumThreads == 2

\* Largest multiple k of the period used when checking periodicity.
MaxShift == 2

One == 2 * 10

(***************************************************************************)
(* float64 arithmetic of _cpu_fallback                                     *)
(***************************************************************************)
Fin(n) == [kind |-> "fin", v |-> n]
NaN == [kind |-> "nan", v |-> 0]
Inf == [kind |-> "inf", v |-> 0]

IsFin(a) == a.kind = "fin"

Abs(n) == IF n < 0 THEN -n ELSE n

\* a + b
FAdd(a, b) ==
    IF a.kind = "nan" \/ b.kind = "nan" THEN NaN
    ELSE IF a.kind = "inf" \/ b.kind = "inf" THEN Inf
    ELSE Fin(a.v + b.v)

\* a * 0.5
FHalf(a) == IF IsFin(a) THEN Fin(a.v \div 2) ELSE a

\* The remainder with the sign of the divisor, a - b*floor(a/b), b # 0.
FloorMod(a, b) == IF b > 0 THEN a % b ELSE -((-a) % (-b))

\* The remainder with the sign of the dividend (C's fmod).
TruncMod(a, b) == IF a >= 0 THEN a % Abs(b) ELSE -((-a) % Abs(b))

\* a % b with C's remainder in place of Python's.
FModTruncating(a, b) ==
    IF a.kind = "nan" \/ b.kind = "nan" \/ a.kind = "inf" THEN NaN
    ELSE IF b.kind = "inf" THEN a
    ELSE IF b.v = 0 THEN NaN
    ELSE Fin(TruncMod(a.v, b.v))

\* a % b on numpy float64 scalars: Python's modulo; nan for a zero divisor,
\* a nan operand or an infinite dividend.
FMod(a, b) ==
    IF a.kind = "nan" \/ b.kind = "nan" \/ a.kind = "inf" THEN NaN
    ELSE IF b.kind = "inf" THEN a
    ELSE IF b.v = 0 THEN NaN
    ELSE Fin(FloorMod(a.v, b.v))

\* a - b; every subtraction of the source has a finite or a nan minuend.
FSub(a, b) == IF IsFin(a) /\ IsFin(b) THEN Fin(a.v - b.v) ELSE NaN

\* (v + p*0.5) % p - p*0.5
Wrap(v, p) == FSub(FMod(FAdd(v, FHalf(p)), p), FHalf(p))

(***************************************************************************)
(* JSON payloads and numpy arrays                                          *)
(***************************************************************************)
IntLit(n) == [lit |-> "int", kind |-> "fin", v |-> n * One]
FloatLit(n) == [lit |-> "float", kind |-> "fin", v |-> n]
NaNLit == [lit |-> "float", kind |-> "nan", v |-> 0]
InfLit == [lit |-> "float", kind |-> "inf", v |-> 0]

Value(j) == [kind |-> j.kind, v |-> j.v]

\* np.array(data['positions']): int64 when every literal is an integer,
\* float64 otherwise (the empty list included).
Dtype(positions) ==
    IF positions # <<>> /\
       \A i \in 1..Len(positions) : \A c \in 1..3 : positions[i][c].lit = "int"
    THEN "int64" ELSE "float64"

\* The value an int64 array keeps of a finite float: the C cast, toward zero.
TruncToInt(n) == IF n >= 0 THEN (n \div One) * One ELSE -(((-n) \div One) * One)

\* q[i] = x on an array of the given dtype.  A nan stored in an int64 array
\* leaves a value whose square is 0 in 64 bits (0, or -2^63).
Store(dtype, x) ==
    IF dtype = "float64" THEN x
    ELSE IF IsFin(x) THEN Fin(TruncToInt(x.v))
    ELSE Fin(0)

\* Whether the store of x converts a nan to an integer.
StoresNaN(dtype, x) == dtype = "int64" /\ ~IsFin(x)

FSquare(a) == IF IsFin(a) THEN Fin(a.v * a.v) ELSE IF a.kind = "nan" THEN NaN ELSE Inf

\* np.sqrt(s) - 1.0, kept as the radicand: [kind, sq] stands for
\* sqrt(sq)/One - 1, so -1.0 is sq = 0 and 0.0 is sq = One*One.
SqrtMinusOne(s) == [kind |-> s.kind, sq |-> s.v]

\* The loop body of _cpu_fallback for one row of the array.
CpuDistance(dtype, pos, dims) ==
    LET q0 == Store(dtype, Wrap(Value(pos[1]), Value(dims[1])))
        q1 == Value(pos[2])
        q2 == Store(dtype, Wrap(Value(pos[3]), Value(dims[2])))
    IN SqrtMinusOne(FAdd(FAdd(FSquare(q0), FSquare(q1)), FSquare(q2)))

\* Whether the loop body converts a nan to an integer for this row.
RowStoresNaN(dtype, pos, dims) ==
    \/ StoresNaN(dtype, Wrap(Value(pos[1]), Value(dims[1])))
    \/ StoresNaN(dtype, Wrap(Value(pos[3]), Value(dims[2])))

Returned(values) == [status |-> "returned", sdf_values |-> values]
Raised == [status |-> "raised", sdf_values |-> <<>>]

\* TPUHandler._cpu_fallback.  nanCastRaises is the numpy build's answer to a
\* nan stored in an int64 array: ValueError, or the cast with a warning.
CpuFallback(data, nanCastRaises) ==
    LET positions == data.positions
        dims == data.dims
        dtype == Dtype(positions)
    IN IF nanCastRaises /\
          \E i \in 1..Len(positions) : RowStoresNaN(dtype, positions[i], dims)
       THEN Raised
       ELSE Returned([i \in 1..Len(positions) |->
                         CpuDistance(dtype, positions[i], dims)])

(***************************************************************************)
(* Inputs of the function-level checks                                     *)
(***************************************************************************)
\* Largest coordinate, in 1/20ths, given to the tiling transform alone.
MaxCoord == 30

\* Half of the largest period, in 1/20ths.
MaxHalfPeriod == 20

\* Periods that are multiples of 0.1, of both signs, and the zero period.
Periods == {2 * n : n \in -MaxHalfPeriod..MaxHalfPeriod}

\* JSON literals of the tiled coordinates x and z, of the untiled y, and of
\* the two periods of a request.
TiledLits == {IntLit(0), IntLit(1), IntLit(-1), FloatLit(One), FloatLit(-12)}
PlainLits == {IntLit(0), FloatLit(10)}
DepthLits == {IntLit(0), IntLit(1)}
Dim0Lits == {IntLit(2), IntLit(1), FloatLit(30), FloatLit(-30), IntLit(0),
             NaNLit, InfLit}
Dim1Lits == {IntLit(2), FloatLit(30)}

PositionLits == {<<x, y, z>> : x \in TiledLits, y \in PlainLits, z \in DepthLits}
DimsLits == {<<d0, d1>> : d0 \in Dim0Lits, d1 \in Dim1Lits}

\* Every batch of at most MaxBatch positions.
Batches == UNION {[1..n -> PositionLits] : n \in 0..MaxBatch}

CpuData == {[positions |-> ps, dims |-> ds] : ps \in Batches, ds \in DimsLits}

NoCall == [op |-> "none", state |-> "none"]

(***************************************************************************)
(* Startup: the module-level code of app.py and TPUHandler.__init__        *)
(***************************************************************************)
Threads == 1..NumThreads

NoHandler == [defined |-> FALSE, available |-> FALSE, interpreter |-> FALSE,
              input_details |-> FALSE, output_details |-> FALSE]

\* What the environment answers to the steps of TPUHandler.__init__: the
\* step that raises, or none.
ProbeOutcomes == {"libraries_missing", "no_device", "load_delegate_fails",
                  "model_load_fails", "allocate_tensors_fails",
                  "get_input_details_fails", "get_output_details_fails", "ok"}

\* The steps of __init__ that run after self.available = True.
AfterDeviceFound == {"load_delegate_fails", "model_load_fails",
                     "allocate_tensors_fails", "get_input_details_fails",
                     "get_output_details_fails", "ok"}

\* self.available once __init__ returns: set when a device is listed, before
\* the model is loaded, and never reset by the except clauses.
AvailableAfterInit(probe) == probe \in AfterDeviceFound

\* TPUHandler.__init__: the attributes the constructor leaves set.
TPUHandlerInit(probe) ==
    [defined |-> TRUE,
     available |-> AvailableAfterInit(probe),
     interpreter |-> probe \in {"allocate_tensors_fails", "get_input_details_fails",
                                "get_output_details_fails", "ok"},
     input_details |-> probe \in {"get_output_details_fails", "ok"},
     output_details |-> probe = "ok"]

\* TPUHandler.is_available
IsAvailable(handler) == handler.available

\* config after the defaults and config.json, when it can be read.
LoadConfig(file) == [use_tpu |-> file = "use_tpu"]

NoTensor == [set |-> FALSE, rows |-> <<>>]

NoResponse == [status |-> "none", code |-> 0, sdf_values |-> <<>>]

Idle == [pc |-> "idle", data |-> [positions |-> <<>>, dims |-> <<>>],
         input_data |-> <<>>, calls |-> <<>>, failed_at |-> "none",
         response |-> NoResponse]

ServerInit ==
    /\ config = [use_tpu |-> FALSE]
    /\ config_file \in {"absent", "unreadable", "use_tpu", "no_tpu"}
    /\ phase = "boot"
    /\ tpu_available = FALSE
    /\ tpu_handler = NoHandler
    /\ interpreter = [input |-> NoTensor, output |-> NoTensor]
    /\ req = [t \in Threads |-> Idle]

Startup ==
    /\ phase = "boot"
    /\ phase' = "serving"
    /\ config' = LoadConfig(config_file)
    /\ \/ /\ ~config'.use_tpu
          /\ UNCHANGED <<tpu_available, tpu_handler>>
       \/ /\ config'.use_tpu
          /\ \/ \* from tpu_handler import TPUHandler raises ImportError
                UNCHANGED <<tpu_available, tpu_handler>>
             \/ \E probe \in ProbeOutcomes :
                   /\ tpu_handler' = TPUHandlerInit(probe)
                   /\ tpu_available' = IsAvailable(tpu_handler')
    /\ UNCHANGED <<config_file, interpreter, req, call>>

(***************************************************************************)
(* /config                                                                 *)
(***************************************************************************)
\* A handler that probes again when use_tpu is posted.
CapabilityFollowsConfig(use_tpu) == use_tpu

\* tpu_available after a POST that sets use_tpu: the handler does not touch it.
CapabilityAfterConfig(use_tpu) == tpu_available

HandleConfig ==
    /\ phase = "serving"
    /\ \/ \* GET
          UNCHANGED <<config, config_file, tpu_available>>
       \/ \* POST, the file written
          \E use_tpu \in BOOLEAN :
             /\ config' = [config EXCEPT !.use_tpu = use_tpu]
             /\ config_file' = IF use_tpu THEN "use_tpu" ELSE "no_tpu"
             /\ tpu_available' = CapabilityAfterConfig(use_tpu)
       \/ \* POST, open() or json.dump raises after config.update
          \E use_tpu \in BOOLEAN :
             /\ config' = [config EXCEPT !.use_tpu = use_tpu]
             /\ config_file' \in {config_file, "unreadable"}
             /\ tpu_available' = CapabilityAfterConfig(use_tpu)
    /\ UNCHANGED <<phase, tpu_handler, interpreter, req, call>>

(***************************************************************************)
(* /tpu-compute and TPUHandler.compute                                     *)
(***************************************************************************)
\* Payloads of the requests served: the empty batch and a batch of two
\* positions with the periods (1.5, 2), and the same batch with a zero period.
ServedA == <<IntLit(1), IntLit(0), IntLit(0)>>
ServedB == <<FloatLit(10), IntLit(0), IntLit(0)>>
ValidDims == <<FloatLit(30), IntLit(2)>>
ZeroDims == <<IntLit(0), IntLit(2)>>
Payloads == {[positions |-> <<>>, dims |-> ValidDims],
             [positions |-> <<ServedA, ServedB>>, dims |-> ValidDims],
             [positions |-> <<ServedA, ServedB>>, dims |-> ZeroDims]}

\* Rows of the float32 input tensor: (x, y, z, dims[0], dims[1]).
InputRows(data) ==
    [i \in 1..Len(data.positions) |->
        <<Value(data.positions[i][1]), Value(data.positions[i][2]),
          Value(data.positions[i][3]), Value(data.dims[1]), Value(data.dims[2])>>]

\* An input tensor built for every batch, the empty one included.
BuildNeverRaises(data) == FALSE

\* Whether lines 71-79 raise: an empty list is an array of shape (0,), which
\* does not broadcast into input_data[:, 0:3] of shape (0, 3).
BuildRaises(data) == data.positions = <<>>

\* The model's output for one row of the input tensor, uninterpreted.
SdfModel(row) == [model_of |-> row]

\* interpreter.invoke(): the output tensor from the input tensor it holds.
InvokeOutput(input) ==
    [set |-> TRUE, rows |-> [i \in 1..Len(input.rows) |-> SdfModel(input.rows[i])]]

\* The response of tpu_compute to what compute returned or raised.
Respond(outcome) ==
    IF outcome.status = "returned"
    THEN [status |-> "success", code |-> 200, sdf_values |-> outcome.sdf_values]
    ELSE [status |-> "error", code |-> 500, sdf_values |-> <<>>]

\* The response when tpu_available is false.
NotAvailableResponse == [status |-> "error", code |-> 400, sdf_values |-> <<>>]

\* An except clause that lets the error out of compute.
ReraiseAcceleratorError(data, nanCastRaises) == Raised

\* compute's except clause: log and return self._cpu_fallback(data).
OnAcceleratorError(data, nanCastRaises) == CpuFallback(data, nanCastRaises)

\* The request of thread t ends on the CPU path after step `step` raised.
FallBack(t, step) ==
    \E nanCastRaises \in BOOLEAN :
       req' = [req EXCEPT ![t].pc = "done", ![t].failed_at = step,
                  ![t].response = Respond(OnAcceleratorError(req[t].data, nanCastRaises))]

\* tpu_compute up to the first use of the interpreter: the availability
\* checks of the handler and of compute, and the input tensor.
TpuCompute(t) ==
    /\ phase = "serving"
    /\ req[t].pc = "idle"
    /\ \E data \in Payloads :
          \/ /\ ~tpu_available
             /\ req' = [req EXCEPT ![t].pc = "done", ![t].data = data,
                           ![t].response = NotAvailableResponse]
          \/ /\ tpu_available /\ ~tpu_handler.available
             /\ \E nanCastRaises \in BOOLEAN :
                   req' = [req EXCEPT ![t].pc = "done", ![t].data = data,
                              ![t].response = Respond(CpuFallback(data, nanCastRaises))]
          \/ /\ tpu_available /\ tpu_handler.available /\ BuildRaises(data)
             /\ \E nanCastRaises \in BOOLEAN :
                   req' = [req EXCEPT ![t].pc = "done", ![t].data = data,
                              ![t].failed_at = "build",
                              ![t].response =
                                  Respond(OnAcceleratorError(data, nanCastRaises))]
          \/ /\ tpu_available /\ tpu_handler.available /\ ~BuildRaises(data)
             /\ req' = [req EXCEPT ![t].pc = "built", ![t].data = data,
                           ![t].input_data = InputRows(data)]
    /\ UNCHANGED <<config, config_file, phase, tpu_available, tpu_handler,
                   interpreter, call>>

\* self.interpreter.set_tensor(self.input_details[0]['index'], input_data)
SetTensor(t) ==
    /\ req[t].pc = "built"
    /\ \/ /\ ~(tpu_handler.interpreter /\ tpu_handler.input_details)
          /\ FallBack(t, "set_tensor")
          /\ UNCHANGED interpreter
       \/ /\ tpu_handler.interpreter /\ tpu_handler.input_details
          /\ \E nanCastRaises \in BOOLEAN :
                req' = [req EXCEPT ![t].pc = "done", ![t].failed_at = "set_tensor",
                           ![t].calls = Append(@, "set_tensor"),
                           ![t].response =
                               Respond(OnAcceleratorError(req[t].data, nanCastRaises))]
          /\ UNCHANGED interpreter
       \/ /\ tpu_handler.interpreter /\ tpu_handler.input_details
          /\ interpreter' = [interpreter EXCEPT
                                !.input = [set |-> TRUE, rows |-> req[t].input_data]]
          /\ req' = [req EXCEPT ![t].pc = "set", ![t].calls = Append(@, "set_tensor")]
    /\ UNCHANGED <<config, config_file, phase, tpu_available, tpu_handler, call>>

\* self.interpreter.invoke()
Invoke(t) ==
    /\ req[t].pc = "set"
    /\ \/ /\ \E nanCastRaises \in BOOLEAN :
                req' = [req EXCEPT ![t].pc = "done", ![t].failed_at = "invoke",
                           ![t].calls = Append(@, "invoke"),
                           ![t].response =
                               Respond(OnAcceleratorError(req[t].data, nanCastRaises))]
          /\ UNCHANGED interpreter
       \/ /\ interpreter' = [interpreter EXCEPT !.output = InvokeOutput(interpreter.input)]
          /\ req' = [req EXCEPT ![t].pc = "invoked", ![t].calls = Append(@, "invoke")]
    /\ UNCHANGED <<config, config_file, phase, tpu_available, tpu_handler, call>>

\* output_data = self.interpreter.get_tensor(...); return its tolist()
GetTensor(t) ==
    /\ req[t].pc = "invoked"
    /\ \/ /\ ~tpu_handler.output_details
          /\ FallBack(t, "get_tensor")
       \/ /\ tpu_handler.output_details
          /\ \E nanCastRaises \in BOOLEAN :
                req' = [req EXCEPT ![t].pc = "done", ![t].failed_at = "get_tensor",
                           ![t].calls = Append(@, "get_tensor"),
                           ![t].response =
                               Respond(OnAcceleratorError(req[t].data, nanCastRaises))]
       \/ /\ tpu_handler.output_details
          /\ req' = [req EXCEPT ![t].pc = "done",
                        ![t].calls = Append(@, "get_tensor"),
                        ![t].response = Respond(Returned(interpreter.output.rows))]
    /\ UNCHANGED <<config, config_file, phase, tpu_available, tpu_handler,
                   interpreter, call>>

\* The response is sent; the thread serves the next request.
Finish(t) ==
    /\ req[t].pc = "done"
    /\ req' = [req EXCEPT ![t] = Idle]
    /\ UNCHANGED <<config, config_file, phase, tpu_available, tpu_handler,
                   interpreter, call>>

Init == ServerInit /\ call = NoCall

Next ==
    \/ Startup
    \/ HandleConfig
    \/ \E t \in Threads : TpuCompute(t)
    \/ \E t \in Threads : SetTensor(t)
    \/ \E t \in Threads : Invoke(t)
    \/ \E t \in Threads : GetTensor(t)
    \/ \E t \in Threads : Finish(t)

Spec == Init /\ [][Next]_vars

(***************************************************************************)
(* Function-level specification: _cpu_fallback and its tiling transform    *)
(* applied to inputs drawn from bounded sets.                              *)
(***************************************************************************)
InitCpu ==
    /\ ServerInit
    /\ config_file = "absent"
    /\ \/ \E d \in CpuData :
             call = [op |-> "_cpu_fallback", state |-> "called", data |-> d]
       \/ \E v \in -MaxCoord..MaxCoord, p \in Periods, k \in -MaxShift..MaxShift :
             call = [op |-> "wrap", state |-> "called", v |-> v, p |-> p, k |-> k]

ApplyCpuFallback ==
    /\ call.op = "_cpu_fallback" /\ call.state = "called"
    /\ \E nanCastRaises \in BOOLEAN :
          call' = [call EXCEPT !.state = "done"] @@
                  [out |-> CpuFallback(call.data, nanCastRaises)]
    /\ UNCHANGED serverVars

ApplyWrap ==
    /\ call.op = "wrap" /\ call.state = "called"
    /\ call' = [call EXCEPT !.state = "done"] @@
               [out |-> Wrap(Fin(call.v), Fin(call.p)),
                shifted |-> Wrap(Fin(call.v + call.k * call.p), Fin(call.p))]
    /\ UNCHANGED serverVars

NextCpu == ApplyCpuFallback \/ ApplyWrap

SpecCpu == InitCpu /\ [][NextCpu]_vars

(***************************************************************************)
(* Properties                                                              *)
(***************************************************************************)
\* Both periods finite and non-zero.
DimsValid(dims) ==
    \A i \in 1..2 : dims[i].kind = "fin" /\ dims[i].v # 0

Served(t) == req[t].pc # "idle"
Done(t) == req[t].pc = "done"

AcceleratorCalls == <<"set_tensor", "invoke", "get_tensor">>

\* C1: a request with valid dims ends, for every capability reached at
\* startup, in a successful response, which holds the CPU-path distances when
\* the capability is not Available; it never ends in an error response.
NeverFailsForUnavailability ==
    \A t \in Threads :
       Done(t) /\ DimsValid(req[t].data.dims) =>
          /\ req[t].response.status = "success"
          /\ ~tpu_available =>
                req[t].response.sdf_values = CpuFallback(req[t].data, FALSE).sdf_values

\* C2: a compute call one of whose accelerator steps raised (building the
\* input, set_tensor, invoke, get_tensor) ends with what _cpu_fallback gives
\* for the same data, and the step's failure does not reach the caller.
FallbackOnAcceleratorError ==
    \A t \in Threads :
       Done(t) /\ req[t].failed_at # "none" =>
          /\ \E nanCastRaises \in BOOLEAN :
                req[t].response = Respond(CpuFallback(req[t].data, nanCastRaises))
          /\ CpuFallback(req[t].data, TRUE).status = "returned" =>
                /\ req[t].response.status = "success"
                /\ Len(req[t].response.sdf_values) = Len(req[t].data.positions)

\* C2's case: get_tensor raised after set_tensor and invoke succeeded, and the
\* caller holds the CPU distances of the two positions.
FallbackAfterGetTensorFailed ==
    \E t \in Threads :
       /\ Done(t) /\ req[t].failed_at = "get_tensor"
       /\ req[t].calls = AcceleratorCalls
       /\ req[t].response.status = "success"
       /\ Len(req[t].response.sdf_values) = 2

\* C3: a request whose dims hold a zero or a non-finite value is refused: the
\* accelerator is not called for it, its response is an error, and no
\* sequence holding a nan is returned.
ValidationFailsFast ==
    \A t \in Threads :
       Served(t) /\ ~DimsValid(req[t].data.dims) =>
          /\ req[t].calls = <<>>
          /\ Done(t) =>
                /\ req[t].response.status = "error"
                /\ req[t].response.sdf_values = <<>>

\* C4: whenever is_available() is true, the interpreter, input_details and
\* output_details are all set.
AvailableOnlyIfInitialized ==
    phase = "serving" /\ tpu_handler.defined /\ IsAvailable(tpu_handler) =>
       /\ tpu_handler.interpreter
       /\ tpu_handler.input_details
       /\ tpu_handler.output_details

\* C5: once startup has finished, no step (a compute call, failing or not, a
\* configuration update) changes TPUHandler.available or app.tpu_available.
CapabilityFixed ==
    [][phase = "serving" =>
          /\ tpu_available' = tpu_available
          /\ tpu_handler'.available = tpu_handler.available]_vars

\* C5's cases: use_tpu was posted away from the capability, in either
\* direction, and a compute call has fallen back to the CPU.
CapabilityDiffersFromConfig ==
    /\ phase = "serving"
    /\ tpu_available /\ ~config.use_tpu
    /\ \E t \in Threads : Done(t) /\ req[t].failed_at = "invoke"

\* C6: a call that went through set_tensor, invoke and get_tensor returns the
\* output computed from its own input tensor.
OwnOutputReturned ==
    \A t \in Threads :
       Done(t) /\ req[t].failed_at = "none" /\ req[t].calls = AcceleratorCalls =>
          req[t].response.sdf_values =
             InvokeOutput([set |-> TRUE, rows |-> req[t].input_data]).rows

\* C7: for valid dims the result has one entry per position, and entry i is
\* the value of position i alone with the same dims.
EntryDependsOnOwnPosition ==
    call.op = "_cpu_fallback" /\ call.state = "done" /\ DimsValid(call.data.dims) =>
       /\ call.out.status = "returned"
       /\ Len(call.out.sdf_values) = Len(call.data.positions)
       /\ \A i \in 1..Len(call.data.positions) :
             call.out.sdf_values[i] =
                CpuFallback([positions |-> <<call.data.positions[i]>>,
                             dims |-> call.data.dims], FALSE).sdf_values[1]

TiledSquare(v, p) ==
    LET m == Abs(p)
        w == ((v + m \div 2) % m) - m \div 2
    IN w * w

\* C10: for non-zero periods, every returned d has
\* (d + 1)^2 = wrap(x, dim0)^2 + y^2 + wrap(z, dim1)^2, whether the
\* coordinates are integer or fractional literals.
CpuDistanceExact ==
    call.op = "_cpu_fallback" /\ call.state = "done" /\ DimsValid(call.data.dims) =>
       /\ call.out.status = "returned"
       /\ \A i \in 1..Len(call.data.positions) :
             LET pos == call.data.positions[i]
                 d == call.out.sdf_values[i]
             IN /\ d.kind = "fin"
                /\ d.sq = TiledSquare(pos[1].v, call.data.dims[1].v)
                          + pos[2].v * pos[2].v
                          + TiledSquare(pos[3].v, call.data.dims[2].v)

====
